---- MODULE Spec2Model ----
(***************************************************************************)
(* Overlay routing core of chain/network/src/routing.rs: signed edges,     *)
(* the edge store and graph of RoutingTable, the BFS forwarding map and    *)
(* the round-robin next-hop selection.                                     *)
(*                                                                         *)
(* Option<T> is a sequence of length 0 (None) or 1 (Some(x)).  A HashMap   *)
(* is a function whose DOMAIN is its key set.  A PeerId is an integer, the *)
(* order of PeerIds is the order of the integers, and the secret key of a  *)
(* peer is named by the peer.                                              *)
(***************************************************************************)
EXTENDS Integers, Sequences, FiniteSets, TLC

VARIABLES
    edges_info,               \* RoutingTable.edges_info : (PeerId, PeerId) -> Edge
    adjacency,                \* RoutingTable.raw_graph.adjacency : PeerId -> set of PeerId
    peer_forwarding,          \* RoutingTable.peer_forwarding : PeerId -> set of PeerId
    route_nonce,              \* RoutingTable.route_nonce : PeerId -> counter
    recalculation_scheduled,  \* RoutingTable.recalculation_scheduled : Option<Instant>
    now,                      \* the value Instant::now() returns, in milliseconds
    last,                     \* the last operation called and the value it returned
    run,                      \* history: the current run of find_route calls to one target
    batch,                    \* history: a set of edges of one pair, and those not yet delivered
    route_back,               \* RoutingTable.route_back : the cache, least recently used first
    account_peers,            \* RoutingTable.account_peers : AccountId -> AnnounceAccount
    hs,                       \* an edge in the hands of its peers: proposal, edge, outcome
    inserted,                 \* history: hash -> peer of add_route_back calls not yet consumed
    announced,                \* history: AccountId -> the add_account calls and their results
    timers                    \* the host: the instants at which a timer it armed fires

vars == <<edges_info, adjacency, peer_forwarding, route_nonce,
          recalculation_scheduled, now, last, run, batch,
          route_back, account_peers, hs, inserted, announced, timers>>

\* the variables the operations on edges, graph and forwarding map leave alone
others == <<route_back, account_peers, hs, inserted, announced>>

----------------------------------------------------------------------------
(* Bounds of the model *)

\* largest nonce of an edge the host submits
MaxNonce == 2

\* the clock stops advancing at this instant
MaxClock == 3

\* find_route is not called once a counter of route_nonce has reached this value
MaxRouteNonce == 13

\* a run of successive find_route calls is followed for this many calls
MaxRun == 3

\* largest nonce of an edge in a batch of edges of one pair
MaxBatchNonce == 4

\* the peers of the network; `source` is the local node
Peers == 0..4

\* Graph.source, the peer id RoutingTable::new was given
source == 0

\* The pairs of peers the host submits edges for: a diamond source-1-3,
\* source-2-3 and an edge whose two endpoints are both the source.
Links == {<<0, 0>>, <<0, 1>>, <<0, 2>>, <<1, 3>>, <<2, 3>>}

ROUND_ROBIN_MAX_NONCE_DIFFERENCE_ALLOWED == 10

----------------------------------------------------------------------------
(* Option, HashMap *)

None == <<>>
Some(x) == <<x>>

EmptyMap == [x \in {} |-> 0]

\* HashMap::insert
MapInsert(m, k, v) == [x \in (DOMAIN m) \cup {k} |-> IF x = k THEN v ELSE m[x]]

Min(a, b) == IF a < b THEN a ELSE b

\* The order in which a HashSet yields its elements is not fixed by the
\* program: `ord` is a sequence holding peers, each once, and the
\* elements of the set are yielded in the order they have in `ord`.
PermsOf(S) == {o \in [1..Cardinality(S) -> S] : \A p \in S : \E i \in DOMAIN o : o[i] = p}

IterSeq(S, ord) == SelectSeq(ord, LAMBDA p : p \in S)

\* two of these orders: ascending and descending peer id
RECURSIVE Ascending(_)
Ascending(S) ==
    IF S = {} THEN <<>>
    ELSE LET m == CHOOSE x \in S : \A y \in S : x <= y
         IN  <<m>> \o Ascending(S \ {m})

RECURSIVE Reverse(_)
Reverse(s) == IF s = <<>> THEN <<>> ELSE Append(Reverse(Tail(s)), Head(s))

TwoOrders == {Ascending(Peers), Reverse(Ascending(Peers))}

----------------------------------------------------------------------------
(* near_crypto: SecretKey::sign, Signature::verify; near_primitives hash *)

\* hash(bytes): collision resistant, so the digest stands for its preimage
Hash(bytes) == bytes

\* secret_key.sign(data), sk the secret key of peer sk
Sign(sk, data) == [signer |-> sk, data |-> data]

\* signature.verify(data, public_key)
SigVerify(signature, data, pk) == signature.signer = pk /\ signature.data = data

\* peer.public_key()
PublicKey(peer) == peer

----------------------------------------------------------------------------
(* Edge *)

Added == "Added"
Removed == "Removed"

\* Edge::key
Key(peer0, peer1) == IF peer0 < peer1 THEN <<peer0, peer1>> ELSE <<peer1, peer0>>

\* Edge::build_hash
build_hash(peer0, peer1, nonce) == Hash(<<peer0, peer1, nonce>>)

\* Edge::new
EdgeNew(peer0, peer1, nonce, signature0, signature1) ==
    IF peer0 < peer1
    THEN [peer0 |-> peer0, peer1 |-> peer1, nonce |-> nonce,
          signature0 |-> signature0, signature1 |-> signature1, removal_info |-> None]
    ELSE [peer0 |-> peer1, peer1 |-> peer0, nonce |-> nonce,
          signature0 |-> signature1, signature1 |-> signature0, removal_info |-> None]

\* Edge::edge_type
edge_type(e) == IF e.nonce % 2 = 1 THEN Added ELSE Removed

\* Edge::hash
EdgeHash(e) == build_hash(e.peer0, e.peer1, e.nonce)

\* Edge::prev_hash
prev_hash(e) == build_hash(e.peer0, e.peer1, e.nonce - 1)

\* How a call ends: with the value it returns, or with a panic that aborts
\* the process.
Returns(x) == <<"returns", x>>
Panics(msg) == <<"panics", msg>>

\* n is above u64::MAX = 2^64 - 1 (2^64 = 65536^4)
AboveU64(n) == (((n \div 65536) \div 65536) \div 65536) \div 65536 > 0

\* a + b on u64.  A sum above u64::MAX panics in a build with overflow
\* checks and wraps around in a build without them.
u64_add(a, b, overflow_checks) ==
    IF ~AboveU64(a + b) THEN Returns(a + b)
    ELSE IF overflow_checks THEN Panics("attempt to add with overflow")
    ELSE Returns(a + b - 2^64)

\* Edge::remove_edge with the party flag true for peer1, as the comment of
\* line 58 has it
RemoveEdgePartyOfComment(e, me, sk, overflow_checks) ==
    IF edge_type(e) # Added THEN Panics("assertion failed")
    ELSE LET nonce == u64_add(e.nonce, 1, overflow_checks)
             edge == [e EXCEPT !.nonce = nonce[2]]
             party == (edge.peer1 = me)
             signature == Sign(sk, EdgeHash(edge))
         IN  IF nonce[1] = "panics" THEN nonce
             ELSE Returns([edge EXCEPT !.removal_info = Some(<<party, signature>>)])

\* Edge::remove_edge: the assertion of line 100, the nonce raised by one
\* (line 102), the party and the signature over the new hash
remove_edge_of(e, me, sk, overflow_checks) ==
    IF edge_type(e) # Added THEN Panics("assertion failed")
    ELSE LET nonce == u64_add(e.nonce, 1, overflow_checks)
             edge == [e EXCEPT !.nonce = nonce[2]]
             party == (edge.peer0 = me)
             signature == Sign(sk, EdgeHash(edge))
         IN  IF nonce[1] = "panics" THEN nonce
             ELSE Returns([edge EXCEPT !.removal_info = Some(<<party, signature>>)])

\* Edge::verify with the removal signature checked under the key of either
\* endpoint, whatever the party
VerifyRemovalByEitherPeer(e) ==
    IF e.peer0 > e.peer1 THEN FALSE
    ELSE IF edge_type(e) = Added
    THEN /\ e.removal_info = None
         /\ SigVerify(e.signature0, EdgeHash(e), PublicKey(e.peer0))
         /\ SigVerify(e.signature1, EdgeHash(e), PublicKey(e.peer1))
    ELSE IF e.nonce = 0 THEN FALSE
    ELSE IF \/ ~SigVerify(e.signature0, prev_hash(e), PublicKey(e.peer0))
            \/ ~SigVerify(e.signature1, prev_hash(e), PublicKey(e.peer1))
    THEN FALSE
    ELSE IF e.removal_info # None
    THEN LET signature == e.removal_info[1][2]
         IN  \/ SigVerify(signature, EdgeHash(e), PublicKey(e.peer0))
             \/ SigVerify(signature, EdgeHash(e), PublicKey(e.peer1))
    ELSE FALSE

\* Edge::verify
Verify(e) ==
    IF e.peer0 > e.peer1 THEN FALSE
    ELSE IF edge_type(e) = Added
    THEN /\ e.removal_info = None
         /\ SigVerify(e.signature0, EdgeHash(e), PublicKey(e.peer0))
         /\ SigVerify(e.signature1, EdgeHash(e), PublicKey(e.peer1))
    ELSE IF e.nonce = 0 THEN FALSE
    ELSE IF \/ ~SigVerify(e.signature0, prev_hash(e), PublicKey(e.peer0))
            \/ ~SigVerify(e.signature1, prev_hash(e), PublicKey(e.peer1))
    THEN FALSE
    ELSE IF e.removal_info # None
    THEN LET party == e.removal_info[1][1]
             signature == e.removal_info[1][2]
             peer == IF party THEN e.peer0 ELSE e.peer1
         IN  SigVerify(signature, EdgeHash(e), PublicKey(peer))
    ELSE FALSE

\* Edge::get_pair
get_pair(e) == <<e.peer0, e.peer1>>

\* Edge::next_nonce
next_nonce(e, overflow_checks) ==
    IF e.nonce % 2 = 1 THEN u64_add(e.nonce, 2, overflow_checks)
    ELSE u64_add(e.nonce, 1, overflow_checks)

\* EdgeInfo::new
EdgeInfoNew(peer0, peer1, nonce, secret_key) ==
    LET k == Key(peer0, peer1)
        data == build_hash(k[1], k[2], nonce)
    IN  [nonce |-> nonce, signature |-> Sign(secret_key, data)]

\* Edge::partial_verify with the public key of peer0, the caller, at line 179
PartialVerifyOwnKey(peer0, peer1, edge_info) ==
    LET pk == PublicKey(peer0)
        k == Key(peer0, peer1)
        data == build_hash(k[1], k[2], edge_info.nonce)
    IN  SigVerify(edge_info.signature, data, pk)

\* Edge::partial_verify
partial_verify(peer0, peer1, edge_info) ==
    LET pk == PublicKey(peer1)
        k == Key(peer0, peer1)
        data == build_hash(k[1], k[2], edge_info.nonce)
    IN  SigVerify(edge_info.signature, data, pk)

\* Edge::build_with_secret_key
build_with_secret_key(peer0, peer1, nonce, secret_key, signature1) ==
    LET hash == IF peer0 < peer1 THEN build_hash(peer0, peer1, nonce)
                ELSE build_hash(peer1, peer0, nonce)
        signature0 == Sign(secret_key, hash)
    IN  EdgeNew(peer0, peer1, nonce, signature0, signature1)

\* The edge two peers sign into existence at `nonce`: each signs the hash of
\* the canonical pair, and Edge::new orders the endpoints.
SignedEdge(a, b, nonce) ==
    LET k == Key(a, b)
        data == build_hash(k[1], k[2], nonce)
    IN  EdgeNew(a, b, nonce, Sign(a, data), Sign(b, data))

\* The edges that exist for a set of links up to a nonce: for each link the
\* edge its two endpoints signed at each odd nonce and at nonce 0, and the
\* removals a peer issued from the former.
SignedEdges(links, maxn) ==
    {SignedEdge(k[1], k[2], n) : k \in links, n \in {m \in 0..maxn : m % 2 = 1 \/ m = 0}}

IssuedRemovals(links, maxn) ==
    {remove_edge_of(e, me, me, overflow_checks)[2] :
        e \in {x \in SignedEdges(links, maxn) : x.nonce % 2 = 1 /\ x.nonce < maxn},
        me \in Peers, overflow_checks \in BOOLEAN}

\* those of them the host lets through: callers must verify() first
VerifiedEdges(links, maxn) ==
    {e \in SignedEdges(links, maxn) \cup IssuedRemovals(links, maxn) : Verify(e)}

\* What process_edge is called with: the verified edges of the links, and
\* the edges of nonce 0.
SubmittedEdges ==
    VerifiedEdges(Links, MaxNonce) \cup {e \in SignedEdges(Links, MaxNonce) : e.nonce = 0}

----------------------------------------------------------------------------
(* Graph *)

\* Graph::contains_edge
contains_edge(adj, peer0, peer1) == peer0 \in DOMAIN adj /\ peer1 \in adj[peer0]

\* Graph::add_directed_edge
add_directed_edge(adj, peer0, peer1) ==
    MapInsert(adj, peer0, (IF peer0 \in DOMAIN adj THEN adj[peer0] ELSE {}) \cup {peer1})

\* Graph::remove_directed_edge, called when peer0 is a key of the adjacency
remove_directed_edge(adj, peer0, peer1) == [adj EXCEPT ![peer0] = @ \ {peer1}]

\* Graph::add_edge without line 517
AddEdgeOneWay(adj, peer0, peer1) ==
    IF ~contains_edge(adj, peer0, peer1)
    THEN add_directed_edge(adj, peer0, peer1)
    ELSE adj

\* Graph::add_edge
add_edge(adj, peer0, peer1) ==
    IF ~contains_edge(adj, peer0, peer1)
    THEN add_directed_edge(add_directed_edge(adj, peer0, peer1), peer1, peer0)
    ELSE adj

\* Graph::remove_edge without line 524
RemoveEdgeOneWay(adj, peer0, peer1) ==
    IF contains_edge(adj, peer0, peer1)
    THEN remove_directed_edge(adj, peer0, peer1)
    ELSE adj

\* Graph::remove_edge
remove_edge(adj, peer0, peer1) ==
    IF contains_edge(adj, peer0, peer1)
    THEN remove_directed_edge(remove_directed_edge(adj, peer0, peer1), peer1, peer0)
    ELSE adj

\* the neighbours of a peer, none when it is no key of the adjacency
Neighbors(adj, p) == IF p \in DOMAIN adj THEN adj[p] ELSE {}

----------------------------------------------------------------------------
(* Graph::calculate_distance *)

\* The state of the search: the queue and its head, the distance map and
\* the routes map.  `ord` gives the order in which neighbour sets iterate.
\* A step hands its state s to the next one as the one element of a set, so
\* that the state is evaluated once.

\* lines 541-547: every neighbour of the source enters the queue at
\* distance 1, routed through itself
RECURSIVE SeedNeighbors(_, _, _)
SeedNeighbors(st, nbrs, i) ==
    IF i > Len(nbrs) THEN st
    ELSE LET neighbor == nbrs[i]
         IN  SeedNeighbors([st EXCEPT !.queue = Append(@, neighbor),
                                      !.distance = MapInsert(@, neighbor, 1),
                                      !.routes = MapInsert(@, neighbor, {neighbor})],
                           nbrs, i + 1)

\* lines 557-574 with the routes of cur_peer handed on only to a neighbour
\* it discovers
RECURSIVE VisitNeighborsFirstOnly(_, _, _, _, _)
VisitNeighborsFirstOnly(st, cur_peer, cur_distance, nbrs, i) ==
    IF i > Len(nbrs) THEN st
    ELSE LET neighbor == nbrs[i]
             st1 == IF neighbor \notin DOMAIN st.distance
                    THEN [st EXCEPT !.queue = Append(@, neighbor),
                                    !.distance = MapInsert(@, neighbor, cur_distance + 1),
                                    !.routes = MapInsert(@, neighbor, st.routes[cur_peer])]
                    ELSE st
         IN  CHOOSE r \in {VisitNeighborsFirstOnly(s, cur_peer, cur_distance, nbrs, i + 1) :
                            s \in {st1}} : TRUE

\* lines 557-574: the neighbours of cur_peer, one after the other
RECURSIVE VisitNeighbors(_, _, _, _, _)
VisitNeighbors(st, cur_peer, cur_distance, nbrs, i) ==
    IF i > Len(nbrs) THEN st
    ELSE LET neighbor == nbrs[i]
             st1 == IF neighbor \notin DOMAIN st.distance
                    THEN [st EXCEPT !.queue = Append(@, neighbor),
                                    !.distance = MapInsert(@, neighbor, cur_distance + 1),
                                    !.routes = MapInsert(@, neighbor, {})]
                    ELSE st
             st2 == IF st1.distance[neighbor] = cur_distance + 1
                    THEN [st1 EXCEPT !.routes[neighbor] = @ \cup st1.routes[cur_peer]]
                    ELSE st1
         IN  CHOOSE r \in {VisitNeighbors(s, cur_peer, cur_distance, nbrs, i + 1) :
                            s \in {st2}} : TRUE

\* lines 551-576: the loop over the queue
RECURSIVE SearchLoop(_, _, _)
SearchLoop(st, adj, ord) ==
    IF ~(st.head < Len(st.queue)) THEN st
    ELSE LET cur_peer == st.queue[st.head + 1]
             cur_distance == st.distance[cur_peer]
             st1 == [st EXCEPT !.head = @ + 1]
         IN  CHOOSE r \in {SearchLoop(s, adj, ord) :
                            s \in {VisitNeighbors(st1, cur_peer, cur_distance,
                                                   IterSeq(Neighbors(adj, cur_peer), ord), 1)}} : TRUE

\* line 578: the entries with no hop are dropped
DropEmpty(routes) == [k \in {x \in DOMAIN routes : routes[x] # {}} |-> routes[k]]

\* calculate_distance with an entry for every peer of the adjacency, made
\* before the search, and no filter at line 578
CalculateDistanceEveryPeer(adj, src, ord) ==
    LET st0 == [queue |-> <<>>, head |-> 0,
                distance |-> MapInsert(EmptyMap, src, 0), routes |-> EmptyMap]
        st1 == SeedNeighbors(st0, IterSeq(Neighbors(adj, src), ord), 1)
        routes == SearchLoop(st1, adj, ord).routes
    IN  [k \in (DOMAIN adj \ {src}) \cup DOMAIN routes |->
            IF k \in DOMAIN routes THEN routes[k] ELSE {}]

calculate_distance(adj, src, ord) ==
    LET st0 == [queue |-> <<>>, head |-> 0,
                distance |-> MapInsert(EmptyMap, src, 0), routes |-> EmptyMap]
        st1 == SeedNeighbors(st0, IterSeq(Neighbors(adj, src), ord), 1)
    IN  DropEmpty(SearchLoop(st1, adj, ord).routes)

----------------------------------------------------------------------------
(* RoutingTable *)

\* RoutingTable::find_nonce
find_nonce(info, key) == IF key \in DOMAIN info THEN info[key].nonce ELSE 0

\* lines 368-375 of process_edge: the edge applied to the graph
ApplyToGraph(adj, e) ==
    IF edge_type(e) = Added
    THEN add_edge(adj, e.peer0, e.peer1)
    ELSE remove_edge(adj, e.peer0, e.peer1)

\* line 362 with > in place of >=
OutdatedStrict(info, e) == find_nonce(info, get_pair(e)) > e.nonce

\* line 362 with the test left out
OutdatedNever(info, e) == FALSE

\* line 362 of process_edge: the edge brings nothing new
Outdated(info, e) == find_nonce(info, get_pair(e)) >= e.nonce

\* line 380 of process_edge
known_routes(fm) == Min(Cardinality(DOMAIN fm), 1000)

\* lines 382-391 with the two arguments of map_or_else exchanged
NewScheduleSwapped(scheduled, fm, t) ==
    IF scheduled = None THEN None
    ELSE Some(known_routes(fm))

\* lines 382-391 with >= in place of > at line 385
NewScheduleAtDeadline(scheduled, fm, t) ==
    IF scheduled = None THEN Some(known_routes(fm))
    ELSE IF t >= scheduled[1] THEN Some(known_routes(fm))
    ELSE None

\* lines 382-391 of process_edge
new_schedule(scheduled, fm, t) ==
    IF scheduled = None THEN Some(known_routes(fm))
    ELSE IF t > scheduled[1] THEN Some(known_routes(fm))
    ELSE None

NoResult == [op |-> "new", new_edge |-> FALSE, schedule_computation |-> None,
             target |-> 0, route |-> <<>>, value |-> FALSE]

NoRun == [target |-> None, calls |-> 0, picks |-> EmptyMap]

\* RoutingTable::process_edge on a table with these fields, Instant::now()
\* returning t: the value returned and the fields it writes
process_edge(info, adj, fm, scheduled, t, e) ==
    IF Outdated(info, e)
    THEN [new_edge |-> FALSE, schedule_computation |-> None,
          edges_info |-> info, adjacency |-> adj, recalculation_scheduled |-> scheduled]
    ELSE LET sched == new_schedule(scheduled, fm, t)
         IN  [new_edge |-> TRUE, schedule_computation |-> sched,
              edges_info |-> MapInsert(info, get_pair(e), e),
              adjacency |-> ApplyToGraph(adj, e),
              recalculation_scheduled |->
                  IF sched # None THEN Some(t + sched[1]) ELSE scheduled]

\* a call of process_edge
ProcessEdge(e) ==
    LET r == process_edge(edges_info, adjacency, peer_forwarding,
                          recalculation_scheduled, now, e)
    IN  /\ edges_info' = r.edges_info
        /\ adjacency' = r.adjacency
        /\ recalculation_scheduled' = r.recalculation_scheduled
        /\ last' = [NoResult EXCEPT !.op = "process_edge", !.new_edge = r.new_edge,
                                    !.schedule_computation = r.schedule_computation]
        /\ UNCHANGED <<peer_forwarding, route_nonce, now, run>>
        /\ UNCHANGED others

\* RoutingTable::update
Update(ord) ==
    /\ recalculation_scheduled' = None
    /\ peer_forwarding' = calculate_distance(adjacency, source, ord)
    /\ last' = [NoResult EXCEPT !.op = "update"]
    /\ run' = NoRun
    /\ UNCHANGED <<edges_info, adjacency, route_nonce, now>>
    /\ UNCHANGED others

\* Instant::now() advances.  The specifications below read the clock and
\* do not advance it.
Tick ==
    /\ now < MaxClock
    /\ now' = now + 1
    /\ UNCHANGED <<edges_info, adjacency, peer_forwarding, route_nonce,
                   recalculation_scheduled, last, run>>
    /\ UNCHANGED others

NoBatch == [edges |-> {}, pending |-> {}]

\* no edge is in the hands of its peers
NoHandshake == [a |-> 0, b |-> 0, info |-> None, accepted |-> None, edge |-> None,
                received |-> FALSE, panicked |-> FALSE]

\* RoutingTable::new: the cache and the directory are empty
NewOthers ==
    /\ route_back = <<>>
    /\ account_peers = EmptyMap
    /\ hs = NoHandshake
    /\ inserted = [pending |-> EmptyMap, ever |-> {}, evicted |-> {}]
    /\ announced = EmptyMap
    /\ timers = {}

\* RoutingTable::new
Init ==
    /\ NewOthers
    /\ edges_info = EmptyMap
    /\ adjacency = EmptyMap
    /\ peer_forwarding = EmptyMap
    /\ route_nonce = EmptyMap
    /\ recalculation_scheduled = None
    /\ now = 0
    /\ last = NoResult
    /\ run = NoRun
    /\ batch = NoBatch

Next ==
    \/ \E e \in SubmittedEdges : ProcessEdge(e) /\ UNCHANGED <<batch, timers>>
    \/ \E ord \in TwoOrders : Update(ord) /\ UNCHANGED <<batch, timers>>

Spec == Init /\ [][Next]_vars

----------------------------------------------------------------------------
(* RoutingTable::find_route_from_peer_id *)

Ok(x) == <<"Ok", x>>
Err(x) == <<"Err", x>>

\* (usize, PeerId) < (usize, PeerId): the order of tuples
PairLess(a, b) == a[1] < b[1] \/ (a[1] = b[1] /\ a[2] < b[2])

\* self.route_nonce.get(&peer_id).cloned().unwrap_or(0)
NonceOf(rn, p) == IF p \in DOMAIN rn THEN rn[p] ELSE 0

\* lines 281-291: the fold over routes.iter(), hops yielded in the order of
\* the sequence `hops`; acc is <<min_v, max_v>>.  The second branch (line
\* 287) returns (max_v, Some(current)): max_v, which may be None, takes the
\* place of min_v.
RECURSIVE FoldMinMax(_, _, _, _)
FoldMinMax(rn, hops, i, acc) ==
    IF i > Len(hops) THEN acc
    ELSE LET min_v == acc[1]
             max_v == acc[2]
             current == <<NonceOf(rn, hops[i]), hops[i]>>
             step == IF min_v = None \/ PairLess(current, min_v[1])
                     THEN <<Some(current), max_v>>
                     ELSE IF max_v = None \/ PairLess(max_v[1], current)
                     THEN <<max_v, Some(current)>>
                     ELSE <<min_v, max_v>>
         IN  FoldMinMax(rn, hops, i + 1, step)

\* lines 309-314: entry(next_hop).and_modify(+1).or_insert(1)
Bump(rn, next_hop) ==
    IF next_hop \in DOMAIN rn THEN [rn EXCEPT ![next_hop] = @ + 1]
    ELSE MapInsert(rn, next_hop, 1)

\* lines 298-306: the clamp of the least counter
Clamp(rn, min_v, max_v) ==
    IF min_v[1] + ROUND_ROBIN_MAX_NONCE_DIFFERENCE_ALLOWED < max_v[1]
    THEN MapInsert(rn, min_v[2], max_v[1] - ROUND_ROBIN_MAX_NONCE_DIFFERENCE_ALLOWED)
    ELSE rn

\* find_route_from_peer_id with a missing entry read as an entry with no
\* hop (unwrap_or_default in place of the if let of line 275)
FindRouteMissingAsEmpty(fm, rn, peer_id, hops) ==
    LET mm == FoldMinMax(rn, IF peer_id \in DOMAIN fm THEN hops ELSE <<>>, 1, <<None, None>>)
        min_v == mm[1]
        max_v == mm[2]
    IN  IF min_v = None
        THEN [result |-> Err("Disconnected"), route_nonce |-> rn]
        ELSE IF max_v = None
        THEN [result |-> Ok(min_v[1][2]), route_nonce |-> Bump(rn, min_v[1][2])]
        ELSE [result |-> Ok(min_v[1][2]),
              route_nonce |-> Bump(Clamp(rn, min_v[1], max_v[1]), min_v[1][2])]

\* The value returned and the route_nonce left behind.  `hops` is the order
\* in which the hop set of peer_id iterates.
find_route_from_peer_id(fm, rn, peer_id, hops) ==
    IF peer_id \in DOMAIN fm
    THEN LET mm == FoldMinMax(rn, hops, 1, <<None, None>>)
             min_v == mm[1]
             max_v == mm[2]
         IN  IF min_v = None
             THEN [result |-> Err("Disconnected"), route_nonce |-> rn]
             ELSE IF max_v = None
             THEN [result |-> Ok(min_v[1][2]), route_nonce |-> Bump(rn, min_v[1][2])]
             ELSE [result |-> Ok(min_v[1][2]),
                   route_nonce |-> Bump(Clamp(rn, min_v[1], max_v[1]), min_v[1][2])]
    ELSE [result |-> Err("PeerNotFound"), route_nonce |-> rn]

\* the orders in which the hop set of a target may iterate
HopOrders(fm, peer_id) == IF peer_id \in DOMAIN fm THEN PermsOf(fm[peer_id]) ELSE {<<>>}

\* history: the run of successive calls for one target and the number of
\* times each hop was returned in it
RunAfter(r, peer_id, result) ==
    IF result[1] # "Ok" THEN NoRun
    ELSE IF r.target = Some(peer_id) /\ r.calls < MaxRun
    THEN [r EXCEPT !.calls = @ + 1,
                   !.picks = MapInsert(@, result[2],
                                 (IF result[2] \in DOMAIN @ THEN @[result[2]] ELSE 0) + 1)]
    ELSE [target |-> Some(peer_id), calls |-> 1, picks |-> MapInsert(EmptyMap, result[2], 1)]

\* find_route(PeerIdOrHash::PeerId(peer_id))
FindRoute(peer_id, hops) ==
    LET r == find_route_from_peer_id(peer_forwarding, route_nonce, peer_id, hops)
    IN  /\ \A p \in DOMAIN route_nonce : route_nonce[p] < MaxRouteNonce
        /\ route_nonce' = r.route_nonce
        /\ last' = [NoResult EXCEPT !.op = "find_route", !.target = peer_id,
                                    !.route = r.result]
        /\ run' = RunAfter(run, peer_id, r.result)
        /\ UNCHANGED <<edges_info, adjacency, peer_forwarding,
                       recalculation_scheduled, now>>
        /\ UNCHANGED others

----------------------------------------------------------------------------
(* The routing table with a forwarding map in place, under find_route *)

\* the graph process_edge builds from the first Added edge of each link
RECURSIVE GraphOf(_)
GraphOf(links) ==
    IF links = {} THEN EmptyMap
    ELSE LET k == CHOOSE x \in links : TRUE
         IN  add_edge(GraphOf(links \ {k}), k[1], k[2])

\* the source with three neighbours which all reach peer 4, and the same
\* without the link from 3 to 4
RouteLinks == {<<0, 1>>, <<0, 2>>, <<0, 3>>, <<1, 4>>, <<2, 4>>, <<3, 4>>}

RouteGraphs == {RouteLinks, RouteLinks \ {<<3, 4>>}}

\* the table after process_edge of the links' edges and update()
InitRoute ==
    \E links \in RouteGraphs :
        /\ NewOthers
        /\ edges_info = [k \in links |-> SignedEdge(k[1], k[2], 1)]
        /\ adjacency = GraphOf(links)
        /\ peer_forwarding = calculate_distance(GraphOf(links), source, Ascending(Peers))
        /\ route_nonce = EmptyMap
        /\ recalculation_scheduled = None
        /\ now = 0
        /\ last = [NoResult EXCEPT !.op = "update"]
        /\ run = NoRun
        /\ batch = NoBatch

NextRoute ==
    \E peer_id \in Peers : \E hops \in HopOrders(peer_forwarding, peer_id) :
        FindRoute(peer_id, hops) /\ UNCHANGED <<batch, timers>>

SpecRoute == InitRoute /\ [][NextRoute]_vars

----------------------------------------------------------------------------
(* The search of calculate_distance on every graph of four peers *)

GraphPeers == 0..3

AllPairs(S) == {k \in S \X S : k[1] <= k[2]}

\* the table after process_edge of the first Added edge of each link
InitGraph ==
    \E links \in SUBSET AllPairs(GraphPeers) :
        /\ NewOthers
        /\ edges_info = [k \in links |-> SignedEdge(k[1], k[2], 1)]
        /\ adjacency = GraphOf(links)
        /\ peer_forwarding = EmptyMap
        /\ route_nonce = EmptyMap
        /\ recalculation_scheduled = IF links = {} THEN None ELSE Some(0)
        /\ now = 0
        /\ last = IF links = {} THEN NoResult
                  ELSE [NoResult EXCEPT !.op = "process_edge", !.new_edge = TRUE,
                            !.schedule_computation =
                                IF Cardinality(links) = 1 THEN Some(0) ELSE None]
        /\ run = NoRun
        /\ batch = NoBatch

NextGraph == \E ord \in PermsOf(GraphPeers) : Update(ord) /\ UNCHANGED <<batch, timers>>

SpecGraph == InitGraph /\ [][NextGraph]_vars

----------------------------------------------------------------------------
(* A set of edges of one pair, delivered to a new table in any order *)

DistinctNonces(S) == \A e1, e2 \in S : e1.nonce = e2.nonce => e1 = e2

InitBatch ==
    \E k \in Links :
        \E S \in SUBSET VerifiedEdges({k}, MaxBatchNonce) :
            /\ S # {}
            /\ DistinctNonces(S)
            /\ batch = [edges |-> S, pending |-> S]
            /\ NewOthers
            /\ edges_info = EmptyMap
            /\ adjacency = EmptyMap
            /\ peer_forwarding = EmptyMap
            /\ route_nonce = EmptyMap
            /\ recalculation_scheduled = None
            /\ now = 0
            /\ last = NoResult
            /\ run = NoRun

Deliver(e) ==
    /\ e \in batch.pending
    /\ ProcessEdge(e)
    /\ batch' = [batch EXCEPT !.pending = @ \ {e}]
    /\ UNCHANGED timers

NextBatch == \E e \in VerifiedEdges(Links, MaxBatchNonce) : Deliver(e)

SpecBatch == InitBatch /\ [][NextBatch]_vars

----------------------------------------------------------------------------
(* The routing table under a clock that advances *)

\* a triangle of the source and two peers
TimerLinks == {<<0, 1>>, <<0, 2>>, <<1, 2>>}

TimerEdges == VerifiedEdges(TimerLinks, MaxNonce)

NextTimer ==
    \/ \E e \in TimerEdges : ProcessEdge(e) /\ UNCHANGED <<batch, timers>>
    \/ Update(Ascending(Peers)) /\ UNCHANGED <<batch, timers>>
    \/ Tick /\ UNCHANGED <<batch, timers>>

SpecTimer == Init /\ [][NextTimer]_vars

----------------------------------------------------------------------------
(* An edge in the hands of its peers: proposal, construction, removal, and
   what arrives from the network in its place *)

\* largest nonce of a proposal, and of an edge as it arrives from the network
MaxEdgeNonce == 3

EdgePeers == 0..2

\* the variables the operations on one edge leave alone
allButEdge == <<edges_info, adjacency, peer_forwarding, route_nonce,
                recalculation_scheduled, now, run, batch,
                route_back, account_peers, inserted, announced,
        timers>>

\* Peer a calls EdgeInfo::new(a, b, nonce, sk) and sends the result to b.
Propose(a, b, nonce, sk) ==
    /\ hs.info = None
    /\ hs.edge = None
    /\ hs' = [hs EXCEPT !.a = a, !.b = b, !.info = Some(EdgeInfoNew(a, b, nonce, sk))]
    /\ last' = [NoResult EXCEPT !.op = "EdgeInfo::new"]
    /\ UNCHANGED allButEdge

\* The proposal reaches b with another nonce in its nonce field.
ReceiveOtherNonce(nonce) ==
    /\ hs.info # None
    /\ hs.edge = None
    /\ hs.accepted = None
    /\ hs' = [hs EXCEPT !.info = Some([hs.info[1] EXCEPT !.nonce = nonce])]
    /\ last' = [NoResult EXCEPT !.op = "receive"]
    /\ UNCHANGED allButEdge

\* Peer b calls Edge::partial_verify(b, a, info).
PartialVerify ==
    /\ hs.info # None
    /\ hs.edge = None
    /\ hs' = [hs EXCEPT !.accepted = Some(partial_verify(hs.b, hs.a, hs.info[1]))]
    /\ last' = [NoResult EXCEPT !.op = "partial_verify",
                                !.value = partial_verify(hs.b, hs.a, hs.info[1])]
    /\ UNCHANGED allButEdge

\* Peer b calls Edge::build_with_secret_key(b, a, nonce, sk_b, signature).
Build ==
    /\ hs.info # None
    /\ hs.edge = None
    /\ hs' = [NoHandshake EXCEPT
                 !.edge = Some(build_with_secret_key(hs.b, hs.a, hs.info[1].nonce,
                                                     hs.b, hs.info[1].signature))]
    /\ last' = [NoResult EXCEPT !.op = "build_with_secret_key"]
    /\ UNCHANGED allButEdge

\* A call of Edge::remove_edge(me, sk) on the edge the peers built, in a
\* build with or without overflow checks; a panic aborts the process.
RemoveEdge(me, sk) ==
    /\ hs.edge # None
    /\ ~hs.received
    /\ ~hs.panicked
    /\ \E overflow_checks \in BOOLEAN :
           LET r == remove_edge_of(hs.edge[1], me, sk, overflow_checks)
           IN  IF r[1] = "returns"
               THEN hs' = [hs EXCEPT !.edge = Some(r[2])]
               ELSE hs' = [hs EXCEPT !.panicked = TRUE]
    /\ last' = [NoResult EXCEPT !.op = "remove_edge", !.target = me]
    /\ UNCHANGED allButEdge

\* The removal info an edge may arrive with: none, or a party and a
\* signature of some peer over the hash of the pair at some nonce.
RemovalInfos(e) ==
    {None} \cup
    {Some(<<party, Sign(s, build_hash(e.peer0, e.peer1, n))>>) :
        party \in BOOLEAN, s \in EdgePeers, n \in 0..MaxEdgeNonce}

\* An Edge is deserialized from the network: the edge the peers built with
\* its nonce, its removal info or the order of its peers set by the sender.
Arrivals(e) ==
    {[e EXCEPT !.nonce = n] : n \in 0..MaxEdgeNonce}
    \cup {[e EXCEPT !.removal_info = r] : r \in RemovalInfos(e)}
    \cup {[e EXCEPT !.peer0 = e.peer1, !.peer1 = e.peer0]}

Receive(e) ==
    /\ hs.edge # None
    /\ ~hs.received
    /\ ~hs.panicked
    /\ e \in Arrivals(hs.edge[1])
    /\ hs' = [hs EXCEPT !.edge = Some(e), !.received = TRUE]
    /\ last' = [NoResult EXCEPT !.op = "receive"]
    /\ UNCHANGED allButEdge

\* a call of Edge::verify
VerifyEdge ==
    /\ hs.edge # None
    /\ ~hs.panicked
    /\ last' = [NoResult EXCEPT !.op = "verify", !.value = Verify(hs.edge[1])]
    /\ UNCHANGED hs
    /\ UNCHANGED allButEdge

\* a call of Edge::next_nonce, in a build with or without overflow checks
NextNonce ==
    /\ hs.edge # None
    /\ ~hs.panicked
    /\ \E overflow_checks \in BOOLEAN :
           LET r == next_nonce(hs.edge[1], overflow_checks)
           IN  IF r[1] = "returns"
               THEN /\ last' = [NoResult EXCEPT !.op = "next_nonce", !.target = r[2]]
                    /\ UNCHANGED hs
               ELSE /\ last' = [NoResult EXCEPT !.op = "next_nonce"]
                    /\ hs' = [hs EXCEPT !.panicked = TRUE]
    /\ UNCHANGED allButEdge

NextEdge ==
    \/ \E a, b, sk \in EdgePeers, nonce \in 1..MaxEdgeNonce : Propose(a, b, nonce, sk)
    \/ \E nonce \in 1..MaxEdgeNonce : ReceiveOtherNonce(nonce)
    \/ PartialVerify
    \/ Build
    \/ \E me, sk \in EdgePeers : RemoveEdge(me, sk)
    \/ \E e \in (IF hs.edge = None THEN {} ELSE Arrivals(hs.edge[1])) : Receive(e)
    \/ VerifyEdge
    \/ NextNonce

SpecEdge == Init /\ [][NextEdge]_vars

----------------------------------------------------------------------------
(* The route-back cache: SizedCache<CryptoHash, PeerId> *)

\* the capacity of the cache in the model; the program's cache holds
\* ROUTE_BACK_CACHE_SIZE = 10000 entries
MaxCache == 2

\* the message hashes and the peers that deliver messages
Hashes == 0..3

BackPeers == 1..3

\* The cache is the sequence of its entries <<key, value>>, the least
\* recently used first.
CacheKeys(c) == {c[i][1] : i \in DOMAIN c}

CacheWithout(c, k) == SelectSeq(c, LAMBDA x : x[1] # k)

CacheValue(c, k) == (CHOOSE i \in DOMAIN c : c[i][1] = k)

\* SizedCache::cache_set: insert or replace; a new key at capacity evicts
\* the least recently used entry
cache_set(c, cap, k, v) ==
    IF k \in CacheKeys(c) THEN Append(CacheWithout(c, k), <<k, v>>)
    ELSE IF Len(c) >= cap THEN Append(Tail(c), <<k, v>>)
    ELSE Append(c, <<k, v>>)

\* SizedCache::cache_get: the value and the cache, the entry now the most
\* recently used
cache_get(c, k) ==
    IF k \in CacheKeys(c)
    THEN LET v == c[CacheValue(c, k)][2]
         IN  [value |-> Some(v), cache |-> Append(CacheWithout(c, k), <<k, v>>)]
    ELSE [value |-> None, cache |-> c]

\* SizedCache::cache_remove: the value and the cache without the entry
cache_remove(c, k) ==
    IF k \in CacheKeys(c)
    THEN [value |-> Some(c[CacheValue(c, k)][2]), cache |-> CacheWithout(c, k)]
    ELSE [value |-> None, cache |-> c]

\* add_route_back on a cache that was made without a capacity
AddRouteBackNoLimit(c, hash, peer_id) == cache_set(c, Len(c) + 1, hash, peer_id)

\* RoutingTable::add_route_back
add_route_back(c, hash, peer_id) == cache_set(c, MaxCache, hash, peer_id)

\* line 423 with cache_get in place of cache_remove
FetchKeepsEntry(c, hash) == cache_get(c, hash)

\* RoutingTable::fetch_route_back
fetch_route_back(c, hash) == cache_remove(c, hash)

\* RoutingTable::compare_route_back
compare_route_back(c, hash, peer_id) ==
    LET r == cache_get(c, hash)
    IN  [value |-> (r.value # None /\ r.value[1] = peer_id), cache |-> r.cache]

\* RoutingTable::find_route, the arm PeerIdOrHash::Hash
find_route_hash(c, hash) ==
    LET r == fetch_route_back(c, hash)
    IN  [result |-> IF r.value = None THEN Err("RouteBackNotFound") ELSE Ok(r.value[1]),
         route_back |-> r.cache]

\* the variables the operations on the cache leave alone
table == <<edges_info, adjacency, peer_forwarding, route_nonce,
           recalculation_scheduled, now, run, batch, account_peers, hs, announced,
        timers>>

\* a call of add_route_back.  History: the hash is pending with this peer;
\* a hash the cache has evicted is pending no more, and counts as evicted
\* until it is inserted again.
AddRouteBack(hash, peer_id) ==
    LET c == add_route_back(route_back, hash, peer_id)
        kept == (DOMAIN inserted.pending \cap CacheKeys(c)) \cup {hash}
    IN  /\ route_back' = c
        /\ inserted' = [pending |-> [x \in kept |-> IF x = hash THEN peer_id
                                                    ELSE inserted.pending[x]],
                        ever |-> inserted.ever \cup {hash},
                        evicted |-> (inserted.evicted
                                     \cup (CacheKeys(route_back) \ CacheKeys(c))) \ {hash}]
        /\ last' = [NoResult EXCEPT !.op = "add_route_back", !.target = hash]
        /\ UNCHANGED table

\* a call of find_route(PeerIdOrHash::Hash(hash))
FindRouteHash(hash) ==
    LET r == find_route_hash(route_back, hash)
    IN  /\ route_back' = r.route_back
        /\ inserted' = [inserted EXCEPT !.pending =
                            [x \in (DOMAIN @) \ {hash} |-> @[x]]]
        /\ last' = [NoResult EXCEPT !.op = "find_route_hash", !.target = hash,
                                    !.route = r.result]
        /\ UNCHANGED table

\* a call of compare_route_back
CompareRouteBack(hash, peer_id) ==
    LET r == compare_route_back(route_back, hash, peer_id)
    IN  /\ route_back' = r.cache
        /\ last' = [NoResult EXCEPT !.op = "compare_route_back", !.target = hash,
                                    !.value = r.value]
        /\ UNCHANGED inserted
        /\ UNCHANGED table

NextBack ==
    \/ \E hash \in Hashes, peer_id \in BackPeers : AddRouteBack(hash, peer_id)
    \/ \E hash \in Hashes : FindRouteHash(hash)
    \/ \E hash \in Hashes, peer_id \in BackPeers : CompareRouteBack(hash, peer_id)

SpecBack == Init /\ [][NextBack]_vars

----------------------------------------------------------------------------
(* The account directory *)

\* add_account calls are recorded for an account id up to this many
MaxAnnounce == 2

AccountIds == 0..1

AnnouncePeers == 1..2

Epochs == 0..1

\* AnnounceAccount: the announcements the host may pass
Announcements ==
    [account_id : AccountIds, peer_id : AnnouncePeers, epoch_id : Epochs]

\* line 345 with true only for an entry equal to the one held
AddAccountRepeatOnly(dir, announce_account) ==
    LET account_id == announce_account.account_id
    IN  [value |-> (account_id \in DOMAIN dir /\ dir[account_id] = announce_account),
         account_peers |-> MapInsert(dir, account_id, announce_account)]

\* RoutingTable::add_account: HashMap::insert puts the announcement in
\* place and hands back the one held before, if any
add_account(dir, announce_account) ==
    LET account_id == announce_account.account_id
        old == IF account_id \in DOMAIN dir THEN Some(dir[account_id]) ELSE None
    IN  [value |-> IF old = None THEN TRUE ELSE old[1] = announce_account,
         account_peers |-> MapInsert(dir, account_id, announce_account)]

\* RoutingTable::account_owner
account_owner(dir, account_id) ==
    IF account_id \in DOMAIN dir THEN Ok(dir[account_id].peer_id)
    ELSE Err("AccountNotFound")

\* the variables the operations on the directory leave alone
tableAndCache == <<edges_info, adjacency, peer_forwarding, route_nonce,
                   recalculation_scheduled, now, run, batch, route_back, hs, inserted,
        timers>>

\* the add_account calls recorded for an account id
CallsOf(account_id) ==
    IF account_id \in DOMAIN announced THEN announced[account_id] ELSE <<>>

\* a call of add_account.  History: the announcement and the value returned.
AddAccount(announce_account) ==
    LET r == add_account(account_peers, announce_account)
        account_id == announce_account.account_id
    IN  /\ Len(CallsOf(account_id)) < MaxAnnounce
        /\ account_peers' = r.account_peers
        /\ announced' = MapInsert(announced, account_id,
                            Append(CallsOf(account_id),
                                   [a |-> announce_account, ret |-> r.value]))
        /\ last' = [NoResult EXCEPT !.op = "add_account", !.target = account_id,
                                    !.value = r.value]
        /\ UNCHANGED tableAndCache

\* a call of account_owner
AccountOwner(account_id) ==
    /\ last' = [NoResult EXCEPT !.op = "account_owner", !.target = account_id,
                                !.route = account_owner(account_peers, account_id)]
    /\ UNCHANGED <<account_peers, announced>>
    /\ UNCHANGED tableAndCache

NextDir ==
    \/ \E announce_account \in Announcements : AddAccount(announce_account)
    \/ \E account_id \in AccountIds : AccountOwner(account_id)

SpecDir == Init /\ [][NextDir]_vars

----------------------------------------------------------------------------
(* find_route with either kind of target, on a table with a forwarding map
   and a route-back cache *)

\* find_route(PeerId) is not called here once a counter has reached this value
MaxFrameNonce == 2

FrameHashes == 0..1

FramePeers == 1..2

NextFrame ==
    \/ \E peer_id \in Peers : \E hops \in HopOrders(peer_forwarding, peer_id) :
           /\ \A p \in DOMAIN route_nonce : route_nonce[p] < MaxFrameNonce
           /\ FindRoute(peer_id, hops)
           /\ UNCHANGED <<batch, timers>>
    \/ \E hash \in FrameHashes : FindRouteHash(hash)
    \/ \E hash \in FrameHashes, peer_id \in FramePeers : AddRouteBack(hash, peer_id)

SpecFrame == InitRoute /\ [][NextFrame]_vars

----------------------------------------------------------------------------
(* The graph under add_edge and remove_edge with peers in either order *)

\* the variables the operations on the graph leave alone
allButGraph == <<edges_info, peer_forwarding, route_nonce, recalculation_scheduled,
                 now, run, batch, route_back, account_peers, hs, inserted, announced,
        timers>>

\* a call of Graph::add_edge; `value` tells whether the adjacency changed
GraphAddEdge(peer0, peer1) ==
    /\ adjacency' = add_edge(adjacency, peer0, peer1)
    /\ last' = [NoResult EXCEPT !.op = "add_edge", !.target = peer0,
                                !.value = (adjacency' # adjacency)]
    /\ UNCHANGED allButGraph

\* a call of Graph::remove_edge; `value` tells whether the adjacency changed
GraphRemoveEdge(peer0, peer1) ==
    /\ adjacency' = remove_edge(adjacency, peer0, peer1)
    /\ last' = [NoResult EXCEPT !.op = "remove_edge", !.target = peer0,
                                !.value = (adjacency' # adjacency)]
    /\ UNCHANGED allButGraph

NextOps ==
    \/ \E peer0, peer1 \in GraphPeers : GraphAddEdge(peer0, peer1)
    \/ \E peer0, peer1 \in GraphPeers : GraphRemoveEdge(peer0, peer1)

SpecOps == Init /\ [][NextOps]_vars

----------------------------------------------------------------------------
(* The routing table and its host: the host arms a timer for every
   schedule_computation process_edge returns and calls update() when a timer
   fires.  Timers that fire at one instant are one timer. *)

\* a path of the source and two peers
HostLinks == {<<0, 1>>, <<1, 2>>}

HostEdges == VerifiedEdges(HostLinks, MaxNonce)

\* the host calls process_edge and arms a timer when told to
HostProcessEdge(e) ==
    LET r == process_edge(edges_info, adjacency, peer_forwarding,
                          recalculation_scheduled, now, e)
    IN  /\ ProcessEdge(e)
        /\ timers' = IF r.schedule_computation # None
                     THEN timers \cup {now + r.schedule_computation[1]}
                     ELSE timers
        /\ UNCHANGED batch

\* a timer has fired and the host calls update(); the neighbour sets iterate in
\* one of two orders
TimerFires(t) ==
    /\ t \in timers
    /\ now >= t
    /\ \E ord \in TwoOrders : Update(ord)
    /\ timers' = timers \ {t}
    /\ UNCHANGED batch

\* Instant::now() advances, up to MaxClock and as long as a timer is to fire
Elapse ==
    /\ now < MaxClock \/ \E t \in timers : t > now
    /\ now' = now + 1
    /\ UNCHANGED <<edges_info, adjacency, peer_forwarding, route_nonce,
                   recalculation_scheduled, last, run, batch, timers>>
    /\ UNCHANGED others

NextHost ==
    \/ \E e \in HostEdges : HostProcessEdge(e)
    \/ \E t \in timers : TimerFires(t)
    \/ Elapse

\* time passes, and the host calls update() for a timer that has fired
SpecHost ==
    /\ Init
    /\ [][NextHost]_vars
    /\ WF_vars(Elapse)
    /\ WF_vars(\E t \in timers : TimerFires(t))

----------------------------------------------------------------------------
(* Distances in the graph, for the statements below *)

\* the peers within k steps of a
RECURSIVE Ball(_, _, _)
Ball(adj, a, k) ==
    IF k = 0 THEN {a}
    ELSE LET B == Ball(adj, a, k - 1)
         IN  B \cup UNION {Neighbors(adj, x) : x \in B}

Unreachable == Cardinality(Peers) + 1

\* the length of a shortest path from a to b
Dist(adj, a, b) ==
    IF b \notin Ball(adj, a, Cardinality(Peers)) THEN Unreachable
    ELSE CHOOSE k \in 0..Cardinality(Peers) :
             b \in Ball(adj, a, k) /\ \A j \in 0..(k - 1) : b \notin Ball(adj, a, j)

\* the neighbours of the source on a shortest path from the source to t
FirstHops(adj, t) ==
    {n \in Neighbors(adj, source) : Dist(adj, source, t) = 1 + Dist(adj, n, t)}

StoredNonce(k) == IF k \in DOMAIN edges_info THEN edges_info[k].nonce ELSE 0

----------------------------------------------------------------------------
(* The statements *)

\* C1: process_edge of an edge whose nonce is at most the nonce stored for
\* its pair (0 when the pair is unseen) returns new_edge = false and
\* schedule_computation = None and writes back edges_info, the adjacency
\* and the recalculation deadline as they were; and a call that returns
\* new_edge = false leaves these and the forwarding map unchanged.
C1_OutdatedEdgeIsNoOp ==
    /\ [](\A e \in SubmittedEdges :
             StoredNonce(<<e.peer0, e.peer1>>) >= e.nonce
             => LET r == process_edge(edges_info, adjacency, peer_forwarding,
                                      recalculation_scheduled, now, e)
                IN  /\ r.new_edge = FALSE
                    /\ r.schedule_computation = None
                    /\ r.edges_info = edges_info
                    /\ r.adjacency = adjacency
                    /\ r.recalculation_scheduled = recalculation_scheduled)
    /\ [][(last'.op = "process_edge" /\ last'.new_edge = FALSE)
          => UNCHANGED <<edges_info, adjacency, peer_forwarding,
                         recalculation_scheduled>>]_vars

\* an edge was rejected by a table that stores an Added and a Removed edge
C1_Witness ==
    /\ last.op = "process_edge"
    /\ last.new_edge = FALSE
    /\ \E k \in DOMAIN edges_info : edges_info[k].nonce = 1
    /\ \E k \in DOMAIN edges_info : edges_info[k].nonce = 2

\* C2: the nonce stored for a pair never decreases, an entry of edges_info
\* is never deleted, and an accepted edge leaves its pair with a nonce
\* strictly above the one stored before.
C2_StoredNonceGrows ==
    [][/\ \A k \in DOMAIN edges_info :
              k \in DOMAIN edges_info' /\ edges_info'[k].nonce >= edges_info[k].nonce
       /\ \A e \in SubmittedEdges :
              (last'.new_edge /\ ProcessEdge(e))
              => /\ <<e.peer0, e.peer1>> \in DOMAIN edges_info'
                 /\ edges_info'[<<e.peer0, e.peer1>>].nonce > StoredNonce(<<e.peer0, e.peer1>>)]_vars

\* an accepted edge replaced the edge stored for its pair
C2_Witness ==
    /\ last.op = "process_edge"
    /\ last.new_edge
    /\ \E k \in DOMAIN edges_info : edges_info[k].nonce = MaxNonce

\* C3: v is a neighbour of u, and u of v, exactly when edges_info holds an
\* edge of odd nonce for the pair of u and v.
C3_AdjacencyMatchesStore ==
    \A u, v \in Peers :
        (v \in Neighbors(adjacency, u))
        <=> (Key(u, v) \in DOMAIN edges_info /\ edges_info[Key(u, v)].nonce % 2 = 1)

\* one pair is stored Added and adjacent, another stored Removed and not
C3_Witness ==
    /\ \E k \in DOMAIN edges_info :
           edges_info[k].nonce % 2 = 1 /\ k[2] \in Neighbors(adjacency, k[1])
    /\ \E k \in DOMAIN edges_info :
           /\ edges_info[k].nonce % 2 = 0
           /\ k[1] \in DOMAIN adjacency
           /\ k[2] \notin Neighbors(adjacency, k[1])

\* the edge of a set with the highest nonce
TopEdge(S) == CHOOSE e \in S : \A x \in S : x.nonce <= e.nonce

\* C4: once every edge of a set of edges of one pair with distinct nonces
\* has been processed, in whatever order, edges_info holds for the pair the
\* edge of highest nonce, and the pair is adjacent exactly when that nonce
\* is odd.
C4_HighestNonceWins ==
    (batch.edges # {} /\ batch.pending = {})
    => LET top == TopEdge(batch.edges)
           k == <<top.peer0, top.peer1>>
       IN  /\ k \in DOMAIN edges_info
           /\ edges_info[k] = top
           /\ (k[2] \in Neighbors(adjacency, k[1])) <=> (top.nonce % 2 = 1)
           /\ (k[1] \in Neighbors(adjacency, k[2])) <=> (top.nonce % 2 = 1)

\* three edges or more were delivered and the last to arrive was outdated
C4_Witness ==
    /\ batch.pending = {}
    /\ Cardinality(batch.edges) >= 3
    /\ last.op = "process_edge"
    /\ last.new_edge = FALSE

\* C5: right after update(), every peer t other than the source that the
\* source reaches has FM[t] equal to the set of neighbours n of the source
\* with dist(source, t) = 1 + dist(n, t), and every peer the source does
\* not reach has no entry.
C5_ForwardingIsAllShortestFirstHops ==
    last.op = "update"
    => \A t \in Peers \ {source} :
           IF Dist(adjacency, source, t) < Unreachable
           THEN t \in DOMAIN peer_forwarding
                /\ peer_forwarding[t] = FirstHops(adjacency, t)
           ELSE t \notin DOMAIN peer_forwarding

\* after update() a peer has two first hops while another peer, which has
\* a neighbour, has no entry
C5_Witness ==
    /\ last.op = "update"
    /\ \E t \in DOMAIN peer_forwarding : Cardinality(peer_forwarding[t]) >= 2
    /\ \E u \in Peers : Neighbors(adjacency, u) # {} /\ u \notin DOMAIN peer_forwarding

\* C6 as stated: in every reachable state, every hop n of every key w of
\* the forwarding map is a neighbour of the source in the current graph
\* with dist(source, w) = 1 + dist(n, w).
C6_ForwardingAlwaysCurrent ==
    \A w \in DOMAIN peer_forwarding : \A n \in peer_forwarding[w] :
        /\ n \in Neighbors(adjacency, source)
        /\ Dist(adjacency, source, w) = 1 + Dist(adjacency, n, w)

\* C6 amended: while no recalculation is pending, every hop n of every key
\* w of the forwarding map is a neighbour of the source in the current
\* graph, and dist(source, w) = 1 + dist(n, w) when w is not the source.
C6_ForwardingCurrentWhenNotPending ==
    recalculation_scheduled = None
    => \A w \in DOMAIN peer_forwarding : \A n \in peer_forwarding[w] :
           /\ n \in Neighbors(adjacency, source)
           /\ w # source => Dist(adjacency, source, w) = 1 + Dist(adjacency, n, w)

\* no recalculation is pending and a peer two steps away has two first hops
C6_Witness ==
    /\ recalculation_scheduled = None
    /\ \E w \in DOMAIN peer_forwarding :
           /\ Cardinality(peer_forwarding[w]) = 2
           /\ Dist(adjacency, source, w) = 2

----------------------------------------------------------------------------
(* Next-hop selection *)

\* the counter of a hop, 0 when it has none
Counter(rn, p) == IF p \in DOMAIN rn THEN rn[p] ELSE 0

\* the hop of H whose pair (counter, peer id) is least
LeastHop(rn, H) ==
    CHOOSE p \in H : \A q \in H :
        Counter(rn, p) < Counter(rn, q) \/ (Counter(rn, p) = Counter(rn, q) /\ p <= q)

LargestCounter(rn, H) == CHOOSE c \in {Counter(rn, p) : p \in H} : \A q \in H : Counter(rn, q) <= c

SmallestCounter(rn, H) == CHOOSE c \in {Counter(rn, p) : p \in H} : \A q \in H : c <= Counter(rn, q)

Spread(rn, H) == LargestCounter(rn, H) - SmallestCounter(rn, H)

\* route_nonce with the counter of p set to c
WithCounter(rn, p, c) == [x \in (DOMAIN rn) \cup {p} |-> IF x = p THEN c ELSE rn[x]]

\* C7: for a target with an entry in the forwarding map, whatever the order
\* in which the hop set iterates, find_route_from_peer_id returns the hop
\* whose pair (counter, peer id) is least; and when the largest counter of
\* the hops exceeds the smallest by at most 10, it leaves route_nonce as it
\* was but for the counter of that hop, which is one more.
C7_LeastHopIsReturned ==
    \A t \in DOMAIN peer_forwarding : \A hops \in PermsOf(peer_forwarding[t]) :
        LET H == peer_forwarding[t]
            r == find_route_from_peer_id(peer_forwarding, route_nonce, t, hops)
            p == LeastHop(route_nonce, H)
        IN  /\ r.result = <<"Ok", p>>
            /\ Spread(route_nonce, H) <= ROUND_ROBIN_MAX_NONCE_DIFFERENCE_ALLOWED
               => r.route_nonce = WithCounter(route_nonce, p, Counter(route_nonce, p) + 1)

\* C8: for a target with two hops or more whose largest counter exceeds the
\* smallest by more than 10, whatever the order in which the hop set
\* iterates, the hop returned is the least one and its counter after the
\* call is the largest counter - 10 + 1.
C8_ClampRaisesLeastCounter ==
    \A t \in DOMAIN peer_forwarding : \A hops \in PermsOf(peer_forwarding[t]) :
        LET H == peer_forwarding[t]
            r == find_route_from_peer_id(peer_forwarding, route_nonce, t, hops)
            p == LeastHop(route_nonce, H)
        IN  (Cardinality(H) >= 2
             /\ Spread(route_nonce, H) > ROUND_ROBIN_MAX_NONCE_DIFFERENCE_ALLOWED)
            => /\ r.result = <<"Ok", p>>
               /\ r.route_nonce[p] =
                      LargestCounter(route_nonce, H)
                          - ROUND_ROBIN_MAX_NONCE_DIFFERENCE_ALLOWED + 1

\* the number of times a hop was returned in the run
Picks(h) == IF h \in DOMAIN run.picks THEN run.picks[h] ELSE 0

\* each hop of the target of the run was returned floor(N/k) or ceil(N/k)
\* times, N the calls of the run and k the number of hops
EvenlyPicked ==
    LET H == peer_forwarding[run.target[1]]
        k == Cardinality(H)
    IN  \A h \in H : Picks(h) = run.calls \div k
                     \/ Picks(h) = (run.calls + k - 1) \div k

\* C9: in a run of N successive find_route calls for one target
\* with k hops, each hop is returned floor(N/k) or ceil(N/k) times.
C9_RoundRobinIsEven ==
    run.target # None => EvenlyPicked

\* C10: after a selection, the largest counter of the hops of the
\* target selected exceeds the smallest by at most 11.
C10_SpreadAtMostEleven ==
    (last.op = "find_route" /\ last.route[1] = "Ok")
    => Spread(route_nonce, peer_forwarding[last.target]) <= 11

----------------------------------------------------------------------------
(* The route-back cache *)

\* C11: for a hash h whose last add_route_back(h, X) has been followed by
\* no eviction and no lookup of h, find_route(Hash(h)) returns X, the peer
\* most recently inserted for h, and removes the mapping, so that a second
\* find_route(Hash(h)) right after it fails with RouteBackNotFound; and
\* for a hash never inserted find_route fails with RouteBackNotFound.
C11_RouteBackIsSingleUse ==
    \A h \in Hashes :
        LET first == find_route_hash(route_back, h)
            second == find_route_hash(first.route_back, h)
        IN  /\ h \in DOMAIN inserted.pending
               => /\ first.result = <<"Ok", inserted.pending[h]>>
                  /\ second.result = <<"Err", "RouteBackNotFound">>
            /\ h \notin inserted.ever
               => first.result = <<"Err", "RouteBackNotFound">>

\* find_route returned the peer of a hash while the cache holds another
\* hash and a third hash was never inserted
C11_Witness ==
    /\ last.op = "find_route_hash"
    /\ last.route[1] = "Ok"
    /\ last.target \notin CacheKeys(route_back)
    /\ Len(route_back) >= 1
    /\ inserted.ever # Hashes

----------------------------------------------------------------------------
(* The account directory *)

\* C12: when exactly two add_account calls were made for an account id,
\* with two distinct announcements, the first returned true, the second
\* returned false, and account_owner(id) returns the peer id of the first
\* announcement.
C12_FirstAnnouncementStands ==
    \A id \in AccountIds :
        LET calls == CallsOf(id)
        IN  (Len(calls) = 2 /\ calls[1].a # calls[2].a)
            => /\ calls[1].ret = TRUE
               /\ calls[2].ret = FALSE
               /\ account_owner(account_peers, id) = <<"Ok", calls[1].a.peer_id>>

\* C13: add_account(a) returns true exactly when the directory holds no
\* announcement for the account id of a or holds a itself, and false
\* exactly when it holds another announcement for that id; account_owner(id)
\* fails with AccountNotFound exactly when add_account was never called with
\* an announcement for id.
C13_AddAccountTellsConflict ==
    /\ \A a \in Announcements :
           LET r == add_account(account_peers, a)
               none == a.account_id \notin DOMAIN account_peers
               same == ~none /\ account_peers[a.account_id] = a
               other == ~none /\ account_peers[a.account_id] # a
           IN  /\ r.value = TRUE <=> (none \/ same)
               /\ r.value = FALSE <=> other
    /\ \A id \in AccountIds :
           account_owner(account_peers, id) = <<"Err", "AccountNotFound">>
           <=> CallsOf(id) = <<>>

\* add_account has returned false for one account id, true for a repeated
\* announcement, and another account id was never announced
C13_Witness ==
    /\ last.op = "add_account"
    /\ last.value = FALSE
    /\ \E id \in AccountIds : id \notin DOMAIN account_peers
    /\ \E a \in Announcements :
           a.account_id \in DOMAIN account_peers /\ account_peers[a.account_id] = a

----------------------------------------------------------------------------
(* The recalculation deadline *)

\* a forwarding map of n entries
MapOfSize(n) == [k \in 1..n |-> {k}]

\* C14: a step that puts an edge into edges_info is an accepted
\* process_edge.  When no deadline is set or the clock is strictly past the
\* deadline, it returns schedule_computation = min(|FM|, 1000) and sets the
\* deadline to now + that delay; otherwise it returns schedule_computation =
\* None and leaves the deadline as it is.  A deadline, once set, is cleared
\* by update() alone; so from the accepted edge that returns a schedule up
\* to the next update(), while the clock has not passed the deadline, no
\* other accepted edge returns one.
C14_ScheduleOnlyWhenNoneStands ==
    /\ [][edges_info' # edges_info
          => /\ last'.op = "process_edge"
             /\ last'.new_edge = TRUE
             /\ IF recalculation_scheduled = None \/ now > recalculation_scheduled[1]
                THEN LET delay == IF Cardinality(DOMAIN peer_forwarding) < 1000
                                  THEN Cardinality(DOMAIN peer_forwarding) ELSE 1000
                     IN  /\ last'.schedule_computation = <<delay>>
                         /\ recalculation_scheduled' = <<now + delay>>
                ELSE /\ last'.schedule_computation = <<>>
                     /\ recalculation_scheduled' = recalculation_scheduled]_vars
    /\ [][(recalculation_scheduled # <<>> /\ recalculation_scheduled' = <<>>)
          => (last'.op = "update" /\ peer_forwarding' = calculate_distance(adjacency, source, Ascending(Peers)))]_vars
    /\ [](last.op = "new"
          => /\ known_routes(MapOfSize(999)) = 999
             /\ known_routes(MapOfSize(1000)) = 1000
             /\ known_routes(MapOfSize(1001)) = 1000)

\* an accepted edge returned no schedule at the very instant of the pending
\* deadline, the forwarding map holding two peers
C14_Witness ==
    /\ last.op = "process_edge"
    /\ last.new_edge = TRUE
    /\ last.schedule_computation = <<>>
    /\ recalculation_scheduled = <<now>>
    /\ now >= 2
    /\ Cardinality(DOMAIN peer_forwarding) = 2

----------------------------------------------------------------------------
(* Edges of a peer with itself *)

\* C15: an edge that verify() accepts has peer0 strictly below peer1, so
\* every edge of edges_info, the host submitting only edges that verify,
\* has peer0 < peer1.
C15_StoredEdgeHasOrderedPeers ==
    \A k \in DOMAIN edges_info :
        Verify(edges_info[k]) => edges_info[k].peer0 < edges_info[k].peer1

\* C16: the forwarding map has no entry whose key is the source.
C16_SourceIsNoForwardingKey ==
    source \notin DOMAIN peer_forwarding

----------------------------------------------------------------------------
(* The life of an edge *)

\* the peer whose key verify() checks the removal signature of e under
Designated(e) == IF e.removal_info[1][1] THEN e.peer0 ELSE e.peer1

\* signature is the signature of peer over the hash of the pair of e at nonce
SignedBy(signature, peer, e, nonce) ==
    signature.signer = peer /\ signature.data = <<e.peer0, e.peer1, nonce>>

\* C17: for an edge e of odd nonce n that verifies and me either of its
\* endpoints, e.remove_edge(me, sk of me) has nonce n + 1, is of kind
\* Removed, carries the two addition signatures of e unchanged and a
\* removal info that designates me with the signature of me over the hash
\* at n + 1, and verifies.
C17_RemovalByEitherEndpointVerifies ==
    hs.edge # None =>
        LET e == hs.edge[1]
        IN  (e.nonce % 2 = 1 /\ Verify(e))
            => \A me \in {e.peer0, e.peer1} : \A overflow_checks \in BOOLEAN :
                   LET called == remove_edge_of(e, me, me, overflow_checks)
                       r == called[2]
                   IN  /\ called[1] = "returns"
                       /\ r.nonce = e.nonce + 1
                       /\ edge_type(r) = "Removed"
                       /\ r.peer0 = e.peer0 /\ r.peer1 = e.peer1
                       /\ r.signature0 = e.signature0
                       /\ r.signature1 = e.signature1
                       /\ r.removal_info # <<>>
                       /\ Designated(r) = me
                       /\ SignedBy(r.removal_info[1][2], me, e, e.nonce + 1)
                       /\ Verify(r) = TRUE

\* remove_edge was called by peer1 of an edge of two peers at nonce 3, and
\* the edge it made verifies
C17_Witness ==
    /\ last.op = "remove_edge"
    /\ hs.edge # None
    /\ hs.edge[1].peer0 < hs.edge[1].peer1
    /\ last.target = hs.edge[1].peer1
    /\ hs.edge[1].nonce = 4
    /\ Verify(hs.edge[1])

\* C18: an edge of even nonce n that verifies has n > 0, signature0 and
\* signature1 the signatures of peer0 and peer1 over the hash at n - 1, a
\* removal info, and in it the signature over the hash at n of the peer the
\* removal info designates.  An edge of even nonce whose removal signature
\* is of a peer that is no endpoint, or of one endpoint while the removal
\* info designates the other, does not verify; nor does an edge of odd
\* nonce that carries a removal info.
C18_RemovedEdgeNeedsAllThreeSignatures ==
    hs.edge # None =>
        LET e == hs.edge[1]
            n == e.nonce
        IN  /\ (n % 2 = 0 /\ Verify(e))
               => /\ n > 0
                  /\ SignedBy(e.signature0, e.peer0, e, n - 1)
                  /\ SignedBy(e.signature1, e.peer1, e, n - 1)
                  /\ e.removal_info # <<>>
                  /\ SignedBy(e.removal_info[1][2], Designated(e), e, n)
            /\ (n % 2 = 0 /\ e.removal_info # <<>>
                /\ e.removal_info[1][2].signer \notin {e.peer0, e.peer1})
               => ~Verify(e)
            /\ (n % 2 = 0 /\ e.removal_info # <<>>
                /\ e.removal_info[1][2].signer # Designated(e))
               => ~Verify(e)
            /\ (n % 2 = 1 /\ e.removal_info # <<>>) => ~Verify(e)

\* verify() has returned false for an edge of two peers at nonce 2 whose
\* addition signatures are valid and whose removal signature is of peer0
\* over the hash at nonce 2, the removal info designating peer1
C18_Witness ==
    /\ last.op = "verify"
    /\ last.value = FALSE
    /\ hs.edge # None
    /\ LET e == hs.edge[1]
       IN  /\ e.peer0 < e.peer1
           /\ e.nonce = 2
           /\ SignedBy(e.signature0, e.peer0, e, 1)
           /\ SignedBy(e.signature1, e.peer1, e, 1)
           /\ e.removal_info # <<>>
           /\ SignedBy(e.removal_info[1][2], e.peer0, e, 2)
           /\ Designated(e) = e.peer1

\* the proposal b holds is the one a made with its own key for the pair
ProposalOfA(a, b, info) ==
    /\ info.signature.signer = a
    /\ info.signature.data = <<IF a < b THEN a ELSE b, IF a < b THEN b ELSE a, info.nonce>>

\* C19: for distinct peers a and b, in either order, and the proposal
\* EdgeInfo::new(a, b, nonce, sk of a) with nonce odd: partial_verify(b, a,
\* info) is true and build_with_secret_key(b, a, nonce, sk of b,
\* info.signature) is an edge with peer0 < peer1, of kind Added, that
\* verifies.  partial_verify(b, a, info) is false when the signature of
\* info is of another key than a's or over another nonce than info.nonce.
C19_HandshakeYieldsVerifiedEdge ==
    (hs.info # None /\ hs.a # hs.b) =>
        LET a == hs.a
            b == hs.b
            info == hs.info[1]
            e == build_with_secret_key(b, a, info.nonce, b, info.signature)
        IN  /\ (ProposalOfA(a, b, info) /\ info.nonce % 2 = 1)
               => /\ partial_verify(b, a, info) = TRUE
                  /\ hs.accepted # None => hs.accepted = <<TRUE>>
                  /\ e.peer0 < e.peer1
                  /\ {e.peer0, e.peer1} = {a, b}
                  /\ e.nonce = info.nonce
                  /\ edge_type(e) = "Added"
                  /\ Verify(e) = TRUE
            /\ info.signature.signer # a => partial_verify(b, a, info) = FALSE
            /\ info.signature.data[3] # info.nonce => partial_verify(b, a, info) = FALSE

\* b, the smaller peer, has accepted the proposal of a at nonce 3
C19_Witness ==
    /\ last.op = "partial_verify"
    /\ hs.accepted = <<TRUE>>
    /\ hs.b < hs.a
    /\ hs.info[1].nonce = 3

\* C20: no call of verify, remove_edge or next_nonce aborts the process.
C20_NoOperationAborts ==
    hs.panicked = FALSE

----------------------------------------------------------------------------
(* What find_route leaves alone *)

\* C21: find_route_from_peer_id(target) fails with PeerNotFound exactly
\* when the forwarding map has no entry for target, whatever the order in
\* which a hop set iterates, and then returns route_nonce as it was; a call
\* of find_route(PeerId) that fails with PeerNotFound leaves route_nonce,
\* the forwarding map and the route-back cache unchanged; every call of
\* find_route(PeerId) leaves the route-back cache unchanged, and every call
\* of find_route(Hash) leaves route_nonce and the forwarding map unchanged.
C21_FindRouteFrame ==
    /\ [](\A t \in Peers : \A hops \in HopOrders(peer_forwarding, t) :
             LET r == find_route_from_peer_id(peer_forwarding, route_nonce, t, hops)
             IN  /\ r.result = <<"Err", "PeerNotFound">> <=> t \notin DOMAIN peer_forwarding
                 /\ t \notin DOMAIN peer_forwarding => r.route_nonce = route_nonce)
    /\ [][/\ (last'.op = "find_route" /\ last'.route = <<"Err", "PeerNotFound">>)
             => UNCHANGED <<route_nonce, peer_forwarding, route_back>>
          /\ last'.op = "find_route" => UNCHANGED route_back
          /\ last'.op = "find_route_hash"
             => UNCHANGED <<route_nonce, peer_forwarding>>]_vars

\* find_route(PeerId) has failed with PeerNotFound on a table whose
\* route-back cache holds an entry and whose route_nonce holds a counter
C21_Witness ==
    /\ last.op = "find_route"
    /\ last.route = <<"Err", "PeerNotFound">>
    /\ Len(route_back) >= 1
    /\ \E p \in DOMAIN route_nonce : route_nonce[p] >= 1
    /\ inserted.ever # DOMAIN inserted.pending

----------------------------------------------------------------------------
(* The graph *)

\* C22: after any sequence of add_edge and remove_edge calls, with the two
\* peers in either order, v is a neighbour of u exactly when u is a
\* neighbour of v, and contains_edge(u, v) = contains_edge(v, u).
C22_AdjacencyIsSymmetric ==
    \A u, v \in GraphPeers :
        /\ (v \in Neighbors(adjacency, u)) <=> (u \in Neighbors(adjacency, v))
        /\ contains_edge(adjacency, u, v) = contains_edge(adjacency, v, u)

\* remove_edge has changed the adjacency, called with the larger peer
\* first; a peer is left with no neighbour and another has two or more
C22_Witness ==
    /\ last.op = "remove_edge"
    /\ last.value = TRUE
    /\ \E v \in Neighbors(adjacency, last.target) : v < last.target
    /\ \E u \in DOMAIN adjacency : adjacency[u] = {}
    /\ \E u \in DOMAIN adjacency : Cardinality(adjacency[u]) >= 2

\* C25: for all peers u and v, in every graph add_edge and remove_edge
\* produce: add_edge(u, v) followed by add_edge(u, v) or by add_edge(v, u)
\* leaves the adjacency as it was after the first call; remove_edge(u, v)
\* for u and v not adjacent leaves the adjacency as it was; and after
\* add_edge(u, v) followed by remove_edge(v, u), v is no neighbour of u and
\* u no neighbour of v.
C25_GraphCallsAreIdempotent ==
    \A u, v \in GraphPeers :
        LET once == add_edge(adjacency, u, v)
            gone == remove_edge(once, v, u)
        IN  /\ add_edge(once, u, v) = once
            /\ add_edge(once, v, u) = once
            /\ v \notin Neighbors(adjacency, u) => remove_edge(adjacency, u, v) = adjacency
            /\ v \notin Neighbors(gone, u)
            /\ u \notin Neighbors(gone, v)

\* add_edge has left the adjacency as it was, called with the larger peer
\* first on a graph of three edges or more
C25_Witness ==
    /\ last.op = "add_edge"
    /\ last.value = FALSE
    /\ \E v \in Neighbors(adjacency, last.target) : v < last.target
    /\ Cardinality({k \in GraphPeers \X GraphPeers :
                       k[1] <= k[2] /\ k[2] \in Neighbors(adjacency, k[1])}) >= 3

----------------------------------------------------------------------------
(* The capacity of the route-back cache *)

\* C23: after any sequence of add_route_back, compare_route_back and
\* find_route(Hash) calls the cache holds at most its capacity of entries,
\* one for a hash; an add_route_back of a new hash to a full cache leaves
\* it as full as it was, with one of the hashes it held gone; and
\* find_route(Hash(h)) for a hash h the cache has evicted fails with
\* RouteBackNotFound.
C23_CacheStaysWithinCapacity ==
    /\ [](/\ Len(route_back) <= MaxCache
          /\ Cardinality(CacheKeys(route_back)) = Len(route_back)
          /\ \A h \in inserted.evicted :
                 find_route_hash(route_back, h).result = <<"Err", "RouteBackNotFound">>)
    /\ [][(/\ last'.op = "add_route_back"
           /\ Len(route_back) = MaxCache
           /\ last'.target \notin CacheKeys(route_back))
          => /\ Len(route_back') = MaxCache
             /\ last'.target \in CacheKeys(route_back')
             /\ \E h \in CacheKeys(route_back) :
                    /\ h \notin CacheKeys(route_back')
                    /\ h \in inserted'.evicted]_vars

\* find_route(Hash) has failed for a hash the full cache had evicted
C23_Witness ==
    /\ last.op = "find_route_hash"
    /\ last.route = <<"Err", "RouteBackNotFound">>
    /\ last.target \in inserted.evicted
    /\ Len(route_back) = MaxCache

----------------------------------------------------------------------------
(* Hop sets *)

\* C24: calculate_distance, whatever the order in which neighbour sets
\* iterate, maps no peer to an empty hop set; the forwarding map holds no
\* empty hop set, and find_route_from_peer_id returns Disconnected for no
\* target and no order in which the hop set iterates.
C24_NoEmptyHopSet ==
    /\ \A ord \in PermsOf(GraphPeers) :
           LET fm == calculate_distance(adjacency, source, ord)
           IN  \A t \in DOMAIN fm : fm[t] # {}
    /\ \A t \in DOMAIN peer_forwarding : peer_forwarding[t] # {}
    /\ \A t \in GraphPeers : \A hops \in HopOrders(peer_forwarding, t) :
           find_route_from_peer_id(peer_forwarding, route_nonce, t, hops).result
               # <<"Err", "Disconnected">>

----------------------------------------------------------------------------
(* The deadline and the forwarding map *)

\* the forwarding map is the one a search of the current graph yields
Fresh == peer_forwarding = calculate_distance(adjacency, source, Reverse(Ascending(Peers)))

\* C26: whenever no recalculation deadline is pending, the forwarding map
\* equals calculate_distance of the current graph; and a step that puts an
\* edge into edges_info leaves a deadline set, which update() alone clears.
C26_NoDeadlineMeansCurrentMap ==
    /\ [](recalculation_scheduled = <<>> => Fresh)
    /\ [][edges_info' # edges_info => recalculation_scheduled' # <<>>]_vars
    /\ [][(recalculation_scheduled # <<>> /\ recalculation_scheduled' = <<>>)
          => last'.op = "update"]_vars

\* no deadline is pending and the forwarding map, of two peers, is current;
\* the clock has passed an earlier deadline and an edge was removed
C26_Witness ==
    /\ recalculation_scheduled = <<>>
    /\ Cardinality(DOMAIN peer_forwarding) = 2
    /\ now >= 2
    /\ \E k \in DOMAIN edges_info : edges_info[k].nonce = 2

\* C27: when the host arms a timer for every schedule_computation returned
\* and calls update() for every timer that fires, a forwarding map that is
\* not the one of the current graph is followed by one that is, and from
\* some instant on the forwarding map is the one of the current graph for
\* good: every accepted edge, also one that returned schedule_computation
\* = None because a deadline was pending, is reflected in the end.
C27_AcceptedEdgesReachTheMap ==
    /\ (~Fresh) ~> Fresh
    /\ <>[]Fresh

\* an edge has just been accepted with schedule_computation = None, as a
\* deadline was pending: a timer is armed, and the forwarding map is not the
\* one of the graph, which holds two edges
C27_Witness ==
    /\ last.op = "process_edge"
    /\ last.new_edge
    /\ last.schedule_computation = None
    /\ recalculation_scheduled # None
    /\ timers # {}
    /\ ~Fresh
    /\ Cardinality(DOMAIN edges_info) = 2

====
